---- MODULE Spec2Model ----
(***************************************************************************)
(* A model of the Pico W colour-light firmware: the LED controller (the    *)
(* pattern engine), the BLE peripheral service and the polling loop of     *)
(* main.py (one strip, idle blink) and main_multi_gpio.py (several strips, *)
(* pattern 4).  The variable `variant` says which of the two programs      *)
(* runs.                                                                   *)
(***************************************************************************)
EXTENDS Integers, Sequences, FiniteSets, TLC

VARIABLES
    variant,              \* "single" (main.py) or "multi" (main_multi_gpio.py)
    now,                  \* the value time.ticks_ms() returns
    leds,                 \* leds[s][i]: the colour strip s shows on LED i
    current_color,        \* controller.current_color
    auto_mode,            \* controller.auto_mode
    pattern_type,         \* controller.pattern_type
    pattern_index,        \* controller.pattern_index
    last_pattern_update,  \* controller.last_pattern_update
    connections,          \* bt_service.connections
    is_connected,         \* bt_service.is_connected (main.py only)
    blink_state,          \* bt_service.blink_state (main.py only)
    last_blink_time,      \* bt_service.last_blink_time (main.py only)
    pc,                   \* where the main loop stands
    current_time,         \* the local current_time of the running tick
    branch,               \* the pattern branch the running tick has taken
    last_irq,             \* the _irq invocation that has just returned
    manual,               \* the colour of an undisturbed manual colour write
    linked,               \* the centrals that hold a link to the peripheral
    faulted,              \* whether the loop has caught a fault
    op,                   \* the call made last, where calls are made one by one
    step_count,           \* pattern steps since the last start_auto_mode call
    striped,              \* a strip was written alone since the last set_color
    waited,               \* ms without a flash, where the idle blink is timed
    elapsed               \* true ms since the stamp, where the wrap is followed

vars == <<variant, now, leds, current_color, auto_mode, pattern_type,
          pattern_index, last_pattern_update, connections, is_connected,
          blink_state, last_blink_time, pc, current_time, branch, last_irq,
          manual, linked, faulted, op, step_count,
          striped, waited, elapsed>>

engineVars == <<leds, current_color, auto_mode, pattern_type, pattern_index,
                last_pattern_update>>
bleVars == <<connections, is_connected>>
blinkVars == <<blink_state, last_blink_time>>
localVars == <<current_time, branch>>
callVars == <<op, step_count, striped>>
fixedVars == <<variant, callVars, waited, elapsed>>

----------------------------------------------------------------------------
(* Bounds of the model. *)

\* Connection handles the BLE host hands out: 1..NumHandles.
NumHandles == 2
\* LEDs per strip of the multi-strip build that the model keeps.
MaxStripLeds == 2

----------------------------------------------------------------------------
(* Program constants. *)

NUM_LEDS == 1
TICKS_PERIOD == 2^30

Variants == {"single", "multi"}
Handles == 1..NumHandles

\* LED_STRIPS: two strips of eight LEDs; the model keeps the first
\* MaxStripLeds of each.
StripLens(v) ==
    IF v = "single" THEN <<NUM_LEDS>>
    ELSE <<MaxStripLeds, MaxStripLeds>>

BLACK == <<0, 0, 0>>
RED == <<255, 0, 0>>
BLUE == <<0, 0, 255>>

pattern_colors ==
    << <<255, 0, 0>>, <<255, 165, 0>>, <<255, 255, 0>>, <<0, 255, 0>>,
       <<0, 0, 255>>, <<128, 0, 128>>, <<255, 20, 147>> >>

----------------------------------------------------------------------------
(* The clock: time.ticks_ms() counts modulo TICKS_PERIOD and                *)
(* time.ticks_diff is the signed difference over that modulus.              *)

ticks_add(t, d) == (t + d) % TICKS_PERIOD

\* The plain difference of two clock readings: the deviation that C23 is
\* tried against.
ticks_plain_diff(a, b) == a - b

ticks_diff(a, b) ==
    ((a - b + TICKS_PERIOD \div 2) % TICKS_PERIOD) - TICKS_PERIOD \div 2

----------------------------------------------------------------------------
(* The rainbow gradient.  _hsv_to_rgb works in floating point; the model    *)
(* computes the same expressions in exact arithmetic and truncates as int() *)
(* does.                                                                    *)

Abs(n) == IF n < 0 THEN -n ELSE n

\* 60 * (1 - abs(((h / 60.0) % 2) - 1)) for an integer hue h
HueRamp(h) == 60 - Abs((h % 120) - 60)

hsv_to_rgb(h, s, v) ==
    LET hi == (255 * v) \div 100                          \* int((c + m) * 255)
        mid == (255 * (v * s * HueRamp(h) + 60 * (100 * v - v * s)))
                   \div 600000                            \* int((x + m) * 255)
        lo == (255 * (100 * v - v * s)) \div 10000        \* int((0 + m) * 255)
    IN  IF 0 <= h /\ h < 60 THEN <<hi, mid, lo>>
        ELSE IF 60 <= h /\ h < 120 THEN <<mid, hi, lo>>
        ELSE IF 120 <= h /\ h < 180 THEN <<lo, hi, mid>>
        ELSE IF 180 <= h /\ h < 240 THEN <<lo, mid, hi>>
        ELSE IF 240 <= h /\ h < 300 THEN <<mid, lo, hi>>
        ELSE <<hi, lo, mid>>

\* A hue scale that ends on the full circle: the deviation that C24 is
\* tried against.
hue_to_full_circle(i, steps) == (i * 360) \div (steps - 1)

\* hue = (i * 360) // steps
hue_of(i, steps) == (i * 360) \div steps

\* colors[i] of the source is generate_rainbow_gradient(steps)[i + 1] here.
generate_rainbow_gradient(steps) ==
    [k \in 1..steps |-> hsv_to_rgb(hue_of(k - 1, steps), 100, 100)]

GRADIENT_STEPS == 96

gradient_colors == generate_rainbow_gradient(GRADIENT_STEPS)

----------------------------------------------------------------------------
(* Payloads are byte sequences.  The helpers below are bytes.decode,        *)
(* str.strip, str.startswith, str.split(':')[1] and int() on them.          *)

COLON == 58
AUTO_PREFIX == <<65, 85, 84, 79, 58>>            \* "AUTO:"
MUSIC_PREFIX == <<77, 85, 83, 73, 67, 58>>       \* "MUSIC:"
STOP_TEXT == <<83, 84, 79, 80>>                  \* "STOP"
CLEAR_TEXT == <<67, 76, 69, 65, 82>>             \* "CLEAR"

\* How many bytes the UTF-8 character led by byte b takes; 0 if b leads none.
Utf8Width(b) ==
    IF b < 128 THEN 1
    ELSE IF 194 <= b /\ b <= 223 THEN 2
    ELSE IF 224 <= b /\ b <= 239 THEN 3
    ELSE IF 240 <= b /\ b <= 244 THEN 4
    ELSE 0

IsContinuation(b) == 128 <= b /\ b <= 191

RECURSIVE Utf8Valid(_)
Utf8Valid(bytes) ==
    IF bytes = <<>> THEN TRUE
    ELSE LET w == Utf8Width(bytes[1])
         IN  /\ w > 0
             /\ Len(bytes) >= w
             /\ \A i \in 2..w : IsContinuation(bytes[i])
             /\ Utf8Valid(SubSeq(bytes, w + 1, Len(bytes)))

IsSpace(b) == b \in {9, 10, 11, 12, 13, 32}
IsDigit(b) == 48 <= b /\ b <= 57

RECURSIVE LStrip(_)
LStrip(s) ==
    IF s # <<>> /\ IsSpace(s[1]) THEN LStrip(Tail(s)) ELSE s

RECURSIVE RStrip(_)
RStrip(s) ==
    IF s # <<>> /\ IsSpace(s[Len(s)])
    THEN RStrip(SubSeq(s, 1, Len(s) - 1))
    ELSE s

Strip(s) == RStrip(LStrip(s))

StartsWith(s, prefix) ==
    /\ Len(s) >= Len(prefix)
    /\ SubSeq(s, 1, Len(prefix)) = prefix

\* The index of the first colon of s, or Len(s) + 1 when it has none.
FirstColon(s) ==
    IF \E i \in 1..Len(s) : s[i] = COLON
    THEN CHOOSE i \in 1..Len(s) :
             /\ s[i] = COLON
             /\ \A j \in 1..(i - 1) : s[j] # COLON
    ELSE Len(s) + 1

\* command.split(':')[1] for a command that holds a colon
SplitField1(s) ==
    LET rest == SubSeq(s, FirstColon(s) + 1, Len(s))
    IN  SubSeq(rest, 1, FirstColon(rest) - 1)

RECURSIVE DigitsValue(_)
DigitsValue(d) ==
    IF d = <<>> THEN 0
    ELSE 10 * DigitsValue(SubSeq(d, 1, Len(d) - 1)) + (d[Len(d)] - 48)

\* int(text): surrounding whitespace, an optional sign, decimal digits.
\* ok = FALSE stands for the ValueError.
ParseInt(text) ==
    LET t == Strip(text)
        signed == t # <<>> /\ t[1] \in {43, 45}
        digits == IF signed THEN Tail(t) ELSE t
        ok == digits # <<>> /\ \A i \in 1..Len(digits) : IsDigit(digits[i])
    IN  IF ~ok THEN [ok |-> FALSE, val |-> 0]
        ELSE [ok |-> TRUE,
              val |-> IF signed /\ t[1] = 45 THEN -DigitsValue(digits)
                      ELSE DigitsValue(digits)]

----------------------------------------------------------------------------
(* The controller (ColorlightController / MultiStripColorlightController).  *)
(* Its methods are functions of the controller's fields, held in a record.  *)

Engine ==
    [leds |-> leds, current_color |-> current_color, auto_mode |-> auto_mode,
     pattern_type |-> pattern_type, pattern_index |-> pattern_index,
     last_pattern_update |-> last_pattern_update]

\* The fields of the controller become those of the record E.
Becomes(E) ==
    /\ leds' = E.leds
    /\ current_color' = E.current_color
    /\ auto_mode' = E.auto_mode
    /\ pattern_type' = E.pattern_type
    /\ pattern_index' = E.pattern_index
    /\ last_pattern_update' = E.last_pattern_update

\* Every LED of every strip written with colour c and flushed.
Fill(ls, c) == [s \in DOMAIN ls |-> [i \in DOMAIN ls[s] |-> c]]

\* A set_color that writes the strips and forgets current_color: the
\* deviation that C12 is tried against.
set_color_leds_only(E, c) == [E EXCEPT !.leds = Fill(E.leds, c)]

set_color(E, c) == [E EXCEPT !.current_color = c, !.leds = Fill(E.leds, c)]

\* A set_strip_color without the lower bound, so that a negative index
\* counts from the end as a Python list index does: the deviation that C13
\* is tried against.
set_strip_color_from_end(E, strip_index, c) ==
    IF -Len(E.leds) <= strip_index /\ strip_index < Len(E.leds)
    THEN [E EXCEPT !.leds[(strip_index % Len(E.leds)) + 1] =
                       [i \in DOMAIN @ |-> c]]
    ELSE E

\* A set_strip_color that records the colour as set_color does: the
\* deviation that C21 is tried against.
set_strip_color_tracked(E, strip_index, c) ==
    IF 0 <= strip_index /\ strip_index < Len(E.leds)
    THEN [E EXCEPT !.current_color = c,
                   !.leds[strip_index + 1] = [i \in DOMAIN @ |-> c]]
    ELSE E

\* strip_index counts from 0, as in the source.
set_strip_color(E, strip_index, c) ==
    IF 0 <= strip_index /\ strip_index < Len(E.leds)
    THEN [E EXCEPT !.leds[strip_index + 1] = [i \in DOMAIN @ |-> c]]
    ELSE E

clear_leds(E) == set_color(E, BLACK)

\* A start that keeps the old time stamp: the deviation that C14 is tried
\* against.
start_keeps_stamp(E, p, t) ==
    [E EXCEPT !.auto_mode = TRUE, !.pattern_type = p, !.pattern_index = 0]

start_auto_mode(E, p, t) ==
    [E EXCEPT !.auto_mode = TRUE, !.pattern_type = p, !.pattern_index = 0,
              !.last_pattern_update = t]

\* A stop that leaves the LEDs as they are: the deviation that C11 is tried
\* against.
stop_keeps_leds(E) == [E EXCEPT !.auto_mode = FALSE]

stop_auto_mode(E) == clear_leds([E EXCEPT !.auto_mode = FALSE])

AllLeds(ls, c) == \A s \in DOMAIN ls : \A i \in DOMAIN ls[s] : ls[s][i] = c

----------------------------------------------------------------------------
(* BluetoothService: the write path.  t is the clock when the handler runs. *)

handle_command(E, command, t) ==
    IF StartsWith(command, AUTO_PREFIX)
    THEN LET pattern_num == ParseInt(SplitField1(command))
         IN  IF pattern_num.ok
             THEN start_auto_mode(E, pattern_num.val, t)
             ELSE E                      \* ValueError: logged
    ELSE IF command = STOP_TEXT THEN stop_auto_mode(E)
    ELSE IF command = CLEAR_TEXT THEN clear_leds(stop_auto_mode(E))
    ELSE IF StartsWith(command, MUSIC_PREFIX)
    THEN LET brightness == ParseInt(SplitField1(command))
         IN  IF brightness.ok THEN stop_auto_mode(E)
             ELSE E                      \* ValueError: logged
    ELSE E

\* A write path whose colour write leaves auto mode running: the deviation
\* from _handle_write that C1 is tried against.
handle_write_keeps_auto(E, value_handle, value, t) ==
    IF value_handle = "color"
    THEN IF Len(value) >= 3
         THEN set_color(E, <<value[1], value[2], value[3]>>)
         ELSE E
    ELSE IF value_handle = "control"
    THEN IF Utf8Valid(value)
         THEN handle_command(E, Strip(value), t)
         ELSE E
    ELSE E

handle_write(E, value_handle, value, t) ==
    IF value_handle = "color"
    THEN IF Len(value) >= 3
         THEN set_color(stop_auto_mode(E), <<value[1], value[2], value[3]>>)
         ELSE E
    ELSE IF value_handle = "control"
    THEN IF Utf8Valid(value)
         THEN handle_command(E, Strip(value), t)
         ELSE E                          \* UnicodeError: logged
    ELSE E

----------------------------------------------------------------------------
(* What the BLE host may deliver. *)

\* Payloads written to the colour characteristic: 0 to 4 bytes.
ColorPayloads ==
    { <<>>, <<10, 20>>, <<10, 20, 30>>, <<10, 20, 30, 40>>,
      <<0, 0, 0>>, <<255, 255, 255>> }

\* The text after "AUTO:" : 1 2 3 4 5, then x, nothing, and 3:x
AutoArgs ==
    { <<49>>, <<50>>, <<51>>, <<52>>, <<53>>,
      <<120>>, <<>>, <<51, 58, 120>> }

\* The text after "MUSIC:" : 300, then x and 7:x
MusicArgs ==
    { <<51, 48, 48>>, <<120>>, <<55, 58, 120>> }

\* Payloads written to the control characteristic.
ControlPayloads ==
    { AUTO_PREFIX \o a : a \in AutoArgs }
    \cup { MUSIC_PREFIX \o a : a \in MusicArgs }
    \cup { STOP_TEXT, CLEAR_TEXT,
           <<32>> \o AUTO_PREFIX \o <<50, 10>>,   \* " AUTO:2\n"
           <<70, 79, 79>>,                        \* "FOO"
           <<83, 84, 79, 80, 195>> }              \* "STOP" and a cut character

Writes ==
    ({"color"} \X ColorPayloads) \cup ({"control"} \X ControlPayloads)
    \cup {<<"other", <<1, 2, 3>>>>}

----------------------------------------------------------------------------
(* The main loop's positions.                                               *)
(*   blink, blink_set : update_waiting_blink                                *)
(*   auto, auto_step, auto_index : update_auto_mode                         *)
(*   sleep : time.sleep(0.1)                                                *)
(*   backoff : time.sleep(1) of the except Exception clause                 *)
(*   shutdown : after the break, before clear_leds()                        *)
(*   exited : main() has returned                                           *)
(*   crashed : an exception has left main()                                 *)

SLEEP_MS == 100
BACKOFF_MS == 1000
BLINK_ON_MS == 100
BLINK_OFF_MS == 4900
FAST_INTERVAL_MS == 500
INTERVAL_MS == 1000

\* The clock values at which the model lets an iteration of the loop begin
\* (the loop is entered at 0).  time.sleep(0.1) returns after 100 ms or
\* later, so the iterations of a run are a choice among these that lie at
\* least SLEEP_MS apart.
TickTimes == {500, 1000, 4900, 5000}

\* The start-up test lights before the loop: 3 x 0.3 s in main.py,
\* 3 x 0.5 s and 0.5 s per strip in main_multi_gpio.py.
StartupMs(v) == IF v = "single" THEN 3 * 300 ELSE 3 * 500 + 2 * 500

LoopTop(v) == IF v = "single" THEN "blink" ELSE "auto"

\* Positions at which no tick has begun to work on the state.
BoundaryPcs == {"blink", "auto", "sleep"}

\* Positions inside the try block of the loop.
TryPcs == {"blink", "blink_set", "auto", "auto_step", "auto_index", "sleep"}

\* Positions after which nothing runs any more.
EndPcs == {"exited", "crashed"}

NONE == <<>>

\* op before any call
NoOp == [name |-> "none", args |-> <<>>]

\* last_irq when the last step was none of _irq's
NoIrq == [event |-> 0, advertised |-> FALSE]

InitOf(v) ==
    /\ variant = v
    /\ now = 0
    /\ leds = [s \in 1..Len(StripLens(v)) |->
                  [i \in 1..StripLens(v)[s] |-> BLACK]]
    /\ current_color = BLACK
    /\ auto_mode = FALSE
    /\ pattern_type = 1
    /\ pattern_index = 0
    /\ last_pattern_update = ticks_add(now, -StartupMs(v))
    /\ connections = {}
    /\ is_connected = FALSE
    /\ blink_state = FALSE
    /\ last_blink_time = now
    /\ pc = LoopTop(v)
    /\ current_time = 0
    /\ branch = 0
    /\ last_irq = NoIrq
    /\ manual = NONE
    /\ linked = {}
    /\ faulted = FALSE
    /\ op = NoOp
    /\ step_count = 0
    /\ striped = FALSE
    /\ waited = 0
    /\ elapsed = StartupMs(v)

Init == \E v \in Variants : InitOf(v)

----------------------------------------------------------------------------
(* BluetoothService._irq.  The handler runs to its end once entered; the    *)
(* main loop stands still meanwhile, wherever it was.                       *)

\* event 1, _IRQ_CENTRAL_CONNECT
IrqConnect(conn_handle) ==
    /\ pc \notin EndPcs
    /\ connections' = connections \cup {conn_handle}
    /\ IF variant = "single"
       THEN /\ is_connected' = TRUE
            /\ Becomes(set_color(Engine, RED))
       ELSE UNCHANGED <<is_connected, engineVars>>
    /\ last_irq' = [event |-> 1, advertised |-> FALSE]
    /\ manual' = NONE
    /\ linked' = linked \cup {conn_handle}
    /\ UNCHANGED <<now, pc, blinkVars, localVars, fixedVars, faulted>>

\* A disconnect branch that takes the peripheral for unconnected whatever
\* is left in the set: the deviation that C10 is tried against.
NeverConnected(remaining) == FALSE

\* is_connected after a disconnect: len(self.connections) > 0
StillConnected(remaining) == Cardinality(remaining) > 0

\* A disconnect branch that advertises only once the set is empty: the
\* deviation that C9 is tried against.
AdvertiseWhenEmpty(remaining) == remaining = {}

\* Whether the disconnect branch calls self._advertise(): its last statement
\* does, under no condition.
AdvertiseAfterDisconnect(remaining) == TRUE

\* A disconnect branch that only discards the handle and leaves the LEDs
\* and auto mode alone: the deviation that C27 is tried against.
IrqDisconnectDiscardOnly(conn_handle) ==
    /\ pc \notin EndPcs
    /\ connections' = connections \ {conn_handle}
    /\ is_connected' = StillConnected(connections')
    /\ last_irq' = [event |-> 2,
                    advertised |-> AdvertiseAfterDisconnect(connections')]
    /\ manual' = NONE
    /\ linked' = linked \ {conn_handle}
    /\ UNCHANGED <<now, pc, engineVars, blinkVars, localVars, fixedVars,
                   faulted>>

\* event 2, _IRQ_CENTRAL_DISCONNECT
IrqDisconnect(conn_handle) ==
    /\ pc \notin EndPcs
    /\ connections' = connections \ {conn_handle}
    /\ IF variant = "single"
       THEN /\ is_connected' = StillConnected(connections')
            /\ IF ~is_connected'
               THEN Becomes(clear_leds(stop_auto_mode(Engine)))
               ELSE UNCHANGED engineVars
       ELSE UNCHANGED <<is_connected, engineVars>>
    /\ last_irq' = [event |-> 2,
                    advertised |-> AdvertiseAfterDisconnect(connections')]
    /\ manual' = NONE
    /\ linked' = linked \ {conn_handle}
    /\ UNCHANGED <<now, pc, blinkVars, localVars, fixedVars, faulted>>

\* event 3, _IRQ_GATTS_WRITE
IrqWrite(value_handle, value) ==
    /\ pc \notin EndPcs
    /\ Becomes(handle_write(Engine, value_handle, value, now))
    /\ last_irq' = [event |-> 3, advertised |-> FALSE]
    /\ manual' = IF value_handle = "color" /\ Len(value) >= 3
                    /\ pc \in BoundaryPcs
                 THEN <<value[1], value[2], value[3]>>
                 ELSE NONE
    /\ UNCHANGED <<now, pc, bleVars, blinkVars, localVars, fixedVars,
                   linked, faulted>>

Irq ==
    \/ \E h \in Handles : IrqConnect(h)
    \/ \E h \in Handles : IrqDisconnect(h)
    \/ \E w \in Writes : IrqWrite(w[1], w[2])

----------------------------------------------------------------------------
(* The main loop.  A step of the model runs from one point at which an      *)
(* _irq could make a difference to what the loop does to the next such      *)
(* point.  The clock stands still while a tick runs.                        *)

\* A phase test that asks for more than the phase's length: the deviation
\* that C4 is tried against.
BlinkDueLate(t) ==
    IF blink_state
    THEN ticks_diff(t, last_blink_time) > BLINK_ON_MS
    ELSE ticks_diff(t, last_blink_time) > BLINK_OFF_MS

\* Whether the phase the blink is in has lasted long enough at clock t.
BlinkDue(t) ==
    IF blink_state
    THEN ticks_diff(t, last_blink_time) >= BLINK_ON_MS
    ELSE ticks_diff(t, last_blink_time) >= BLINK_OFF_MS

\* A guard that looks at auto mode alone: the deviation that C5 is tried
\* against.
BlinkOffInAutoOnly == auto_mode

\* The guard of update_waiting_blink: it returns at once when this holds.
BlinkOff == is_connected \/ auto_mode

\* update_waiting_blink (main.py) up to the test of the phase: the guard,
\* current_time = time.ticks_ms(), ticks_diff
BlinkCheck ==
    /\ pc = "blink"
    /\ IF ~BlinkOff /\ BlinkDue(now)
       THEN pc' = "blink_set" /\ current_time' = now
       ELSE pc' = "auto" /\ UNCHANGED current_time
    /\ last_irq' = NoIrq
    /\ UNCHANGED <<now, engineVars, bleVars, blinkVars, branch, fixedVars,
                   manual, linked, faulted>>

\* What the phase change writes to the LEDs: clear_leds() when lit,
\* set_color(0, 0, 255) when dark.
BlinkShow(E) == IF blink_state THEN clear_leds(E) ELSE set_color(E, BLUE)

\* update_waiting_blink, the phase change: the LED write, then blink_state
\* and last_blink_time
BlinkToggle ==
    /\ pc = "blink_set"
    /\ Becomes(BlinkShow(Engine))
    /\ blink_state' = ~blink_state
    /\ last_blink_time' = current_time
    /\ current_time' = 0
    /\ pc' = "auto"
    /\ last_irq' = NoIrq
    /\ manual' = NONE
    /\ UNCHANGED <<now, bleVars, branch, fixedVars, linked, faulted>>

update_waiting_blink == BlinkCheck \/ BlinkToggle

\* One interval for every pattern: the deviation that C17 is tried against.
IntervalAlwaysFast(p) == FAST_INTERVAL_MS

IntervalFor(p) == IF p = 3 THEN FAST_INTERVAL_MS ELSE INTERVAL_MS

\* Whether a pattern step is due at clock t.
PatternDue(t) ==
    ticks_diff(t, last_pattern_update) >= IntervalFor(pattern_type)

\* update_auto_mode up to the test of the interval: the guard on auto_mode,
\* current_time = time.ticks_ms(), interval, ticks_diff
AutoCheck ==
    /\ pc = "auto"
    /\ IF auto_mode /\ PatternDue(now)
       THEN pc' = "auto_step" /\ current_time' = now
       ELSE pc' = "sleep" /\ UNCHANGED current_time
    /\ last_irq' = NoIrq
    /\ UNCHANGED <<now, engineVars, bleVars, blinkVars, branch, fixedVars,
                   manual, linked, faulted>>

\* The branches update_auto_mode has: 1, 2, 3 and, in the multi-strip
\* build, 4.
Branches(v) == IF v = "single" THEN {1, 2, 3} ELSE {1, 2, 3, 4}

\* A new palette colour at every index: the deviation that C20 is tried
\* against.
BlinkCycleEveryIndex(k) == pattern_colors[(k % Len(pattern_colors)) + 1]

\* The palette colour pattern 2 and pattern 4 show at index k.
BlinkCycleColor(k) == pattern_colors[((k \div 2) % Len(pattern_colors)) + 1]

\* Pattern 4: strip i (from 0) lit when pattern_index + i is even, else dark.
RECURSIVE AlternateStrips(_, _)
AlternateStrips(E, i) ==
    IF i >= Len(E.leds) THEN E
    ELSE AlternateStrips(
             IF (E.pattern_index + i) % 2 = 0
             THEN set_strip_color(E, i, BlinkCycleColor(E.pattern_index))
             ELSE set_strip_color(E, i, BLACK),
             i + 1)

\* What the branch taken writes to the LEDs.
PatternShow(E, b) ==
    IF b = 1 THEN set_color(E, pattern_colors[E.pattern_index + 1])
    ELSE IF b = 2
    THEN IF E.pattern_index % 2 = 0
         THEN set_color(E, BlinkCycleColor(E.pattern_index))
         ELSE clear_leds(E)
    ELSE IF b = 3 THEN set_color(E, gradient_colors[E.pattern_index + 1])
    ELSE IF b = 4 THEN AlternateStrips(E, 0)
    ELSE E

\* Whether the branch's list index is in range (else IndexError).
IndexInRange(E, b) ==
    IF b = 1 THEN E.pattern_index < Len(pattern_colors)
    ELSE IF b = 3 THEN E.pattern_index < Len(gradient_colors)
    ELSE TRUE

\* Two steps of the index in one call: the deviation that C18 is tried
\* against.
PatternAdvanceTwice(k, b) ==
    IF b = 1 THEN (k + 2) % Len(pattern_colors)
    ELSE IF b = 3 THEN (k + 2) % Len(gradient_colors)
    ELSE IF b \in {2, 4} THEN k + 2
    ELSE k

\* An index that is never wrapped: the deviation that C19 is tried against.
PatternAdvanceNoWrap(k, b) == IF b \in {1, 2, 3, 4} THEN k + 1 ELSE k

\* What the branch taken makes of pattern_index.
PatternAdvance(k, b) ==
    IF b = 1 THEN (k + 1) % Len(pattern_colors)
    ELSE IF b = 3 THEN (k + 1) % Len(gradient_colors)
    ELSE IF b \in {2, 4} THEN k + 1
    ELSE k

\* A chain that ends in an else running pattern 1: the deviation that C15
\* is tried against.
BranchOrFirst(v, p) == IF p \in Branches(v) THEN p ELSE 1

\* The branch of the if/elif chain that pattern_type p selects; 0 for none.
BranchOf(v, p) == IF p \in Branches(v) THEN p ELSE 0

\* update_auto_mode: the if/elif chain on pattern_type and the LED writes
\* of the branch taken
AutoStep ==
    /\ pc = "auto_step"
    /\ IndexInRange(Engine, BranchOf(variant, pattern_type))
    /\ Becomes(PatternShow(Engine, BranchOf(variant, pattern_type)))
    /\ branch' = BranchOf(variant, pattern_type)
    /\ pc' = "auto_index"
    /\ last_irq' = NoIrq
    /\ UNCHANGED <<now, bleVars, blinkVars, current_time, fixedVars, manual,
                   linked, faulted>>

\* update_auto_mode: pattern_index of the branch taken, then
\* last_pattern_update = current_time
AutoIndex ==
    /\ pc = "auto_index"
    /\ pattern_index' = PatternAdvance(pattern_index, branch)
    /\ last_pattern_update' = current_time
    /\ current_time' = 0
    /\ branch' = 0
    /\ pc' = "sleep"
    /\ last_irq' = NoIrq
    /\ UNCHANGED <<now, leds, current_color, auto_mode, pattern_type,
                   bleVars, blinkVars, fixedVars, manual, linked, faulted>>

update_auto_mode == AutoCheck \/ AutoStep \/ AutoIndex

\* The clock moves on to t, a later one of the values in times that is at
\* least least ms away.
ClockTo(times, least) ==
    \E t \in times :
        /\ ticks_diff(t, now) >= least
        /\ now' = t

\* time.sleep(0.1), then the next iteration
Sleep ==
    /\ pc = "sleep"
    /\ ClockTo(TickTimes, SLEEP_MS)
    /\ pc' = LoopTop(variant)
    /\ last_irq' = NoIrq
    /\ UNCHANGED <<engineVars, bleVars, blinkVars, localVars, fixedVars,
                   manual, linked, faulted>>

Tick ==
    \/ variant = "single" /\ BlinkCheck
    \/ variant = "single" /\ BlinkToggle
    \/ AutoCheck
    \/ AutoStep
    \/ AutoIndex

Next == Irq \/ Tick \/ Sleep

\* The program with a strip driver that never raises and no shutdown
\* signal.
Spec == Init /\ [][Next]_vars

----------------------------------------------------------------------------
(* The ticks called at chosen clock values, as the blink's timing is        *)
(* stated: main.py's two ticks, between them a pause of any length.         *)

CallTimes == {4899, 4900, 4999, 5000}

\* The next call of the ticks comes at a later one of CallTimes.
Pause ==
    /\ pc = "sleep"
    /\ ClockTo(CallTimes, 1)
    /\ pc' = LoopTop(variant)
    /\ last_irq' = NoIrq
    /\ UNCHANGED <<engineVars, bleVars, blinkVars, localVars, fixedVars,
                   manual, linked, faulted>>

NextBlink == Irq \/ Tick \/ Pause

SpecBlink == InitOf("single") /\ [][NextBlink]_vars

----------------------------------------------------------------------------
(* The loop of main() with its except clauses: a strip driver that may      *)
(* raise, and the shutdown signal.                                          *)

\* A loop whose except clauses both leave the loop: the deviation that C8
\* is tried against.
HandlerLeavesLoop(kind, p) ==
    IF p \in TryPcs THEN "shutdown" ELSE "crashed"

\* Where control goes when an exception of the given kind is raised at
\* position p: inside the try block, except KeyboardInterrupt breaks and
\* except Exception prints and sleeps 1 s; outside of it nothing catches.
Handler(kind, p) ==
    IF p \in TryPcs
    THEN IF kind = "KeyboardInterrupt" THEN "shutdown" ELSE "backoff"
    ELSE "crashed"

\* What the tick at position p is about to write.
TickShow(E, p) ==
    IF p = "blink_set" THEN BlinkShow(E)
    ELSE IF IndexInRange(E, BranchOf(variant, E.pattern_type))
    THEN PatternShow(E, BranchOf(variant, E.pattern_type))
    ELSE E

\* The strips after a write that was to turn old into new and raised on the
\* way: each strip is as before or already written.
PartialLeds(old, new) ==
    { [s \in DOMAIN old |-> IF s \in done THEN new[s] ELSE old[s]] :
          done \in SUBSET DOMAIN old }

\* The tick raises where it indexes a palette or writes the strips:
\* current_color is assigned before the first strip is written; the
\* statements after the write (blink_state, pattern_index, the time stamps)
\* are skipped.
Fault ==
    /\ pc \in {"blink_set", "auto_step"}
    /\ pc = "auto_step" => BranchOf(variant, pattern_type) # 0
    /\ current_color' = TickShow(Engine, pc).current_color
    /\ leds' \in PartialLeds(leds, TickShow(Engine, pc).leds)
    /\ pc' = Handler("Exception", pc)
    /\ current_time' = 0
    /\ branch' = 0
    /\ faulted' = TRUE
    /\ last_irq' = NoIrq
    /\ manual' = NONE
    /\ UNCHANGED <<now, auto_mode, pattern_type, pattern_index,
                   last_pattern_update, bleVars, blinkVars, fixedVars,
                   linked>>

\* The shutdown signal, delivered inside the try block or during the pause
\* of the except Exception clause.
KeyboardInterrupt ==
    /\ pc \in TryPcs \cup {"backoff"}
    /\ pc' = Handler("KeyboardInterrupt", pc)
    /\ current_time' = 0
    /\ branch' = 0
    /\ last_irq' = NoIrq
    /\ manual' = NONE
    /\ UNCHANGED <<now, engineVars, bleVars, blinkVars, fixedVars, linked,
                   faulted>>

\* time.sleep(1) of the except Exception clause, then the next iteration
Backoff ==
    /\ pc = "backoff"
    /\ ClockTo(TickTimes, BACKOFF_MS)
    /\ pc' = LoopTop(variant)
    /\ last_irq' = NoIrq
    /\ UNCHANGED <<engineVars, bleVars, blinkVars, localVars, fixedVars,
                   manual, linked, faulted>>

\* After the break: penlight.clear_leds(), and main() returns
Shutdown ==
    /\ pc = "shutdown"
    /\ Becomes(clear_leds(Engine))
    /\ pc' = "exited"
    /\ last_irq' = NoIrq
    /\ manual' = NONE
    /\ UNCHANGED <<now, bleVars, blinkVars, localVars, fixedVars, linked,
                   faulted>>

\* The steps main() takes by itself.
LoopStep == Tick \/ Sleep \/ Backoff \/ Shutdown

\* The writes delivered while the loop's control is watched: a colour,
\* AUTO:1, AUTO:2, AUTO:4 and STOP.
LoopWrites ==
    { <<"color", <<10, 20, 30>>>>,
      <<"control", AUTO_PREFIX \o <<49>>>>,
      <<"control", AUTO_PREFIX \o <<50>>>>,
      <<"control", AUTO_PREFIX \o <<52>>>>,
      <<"control", STOP_TEXT>> }

IrqLoop ==
    \/ \E h \in Handles : IrqConnect(h)
    \/ \E h \in Handles : IrqDisconnect(h)
    \/ \E w \in LoopWrites : IrqWrite(w[1], w[2])

NextLoop == IrqLoop \/ LoopStep \/ Fault \/ KeyboardInterrupt

\* main() runs on whenever no handler runs: its steps are weakly fair.
SpecLoop == Init /\ [][NextLoop]_vars /\ WF_vars(LoopStep)

----------------------------------------------------------------------------
(* The controller's methods and the control commands called one by one,     *)
(* each running to its end before the next, at clock values that move on    *)
(* between the calls.  op names the call made last.                         *)

\* The clock values the calls are made at end here.
MaxClock == 2500

\* By how much the clock moves between two calls: the fast interval (half
\* of the other one), the other interval (two fast ones).
ClockSteps == {500, 1000}

\* Colours handed to set_color and set_strip_color (clear_leds hands in
\* black).
CallColors == {<<10, 20, 30>>}

\* Strip indices handed to set_strip_color: -1, 0, 1, 2.
CallStrips == {-1, 0, 1, 2}

\* Pattern numbers handed to start_auto_mode.
CallPatterns == {0, 1, 2, 3, 4, 5}

\* Control commands: STOP, CLEAR, MUSIC:300, MUSIC:-5.
CallCommands ==
    { STOP_TEXT, CLEAR_TEXT,
      MUSIC_PREFIX \o <<51, 48, 48>>,
      MUSIC_PREFIX \o <<45, 53>> }

\* AUTO commands: AUTO:2, AUTO:5, AUTO:-1.
CallAutoCommands ==
    { AUTO_PREFIX \o <<50>>, AUTO_PREFIX \o <<53>>,
      AUTO_PREFIX \o <<45, 49>> }

\* One call of update_auto_mode of build v at clock t, run to its end.
AutoTick(E, v, t) ==
    IF ~E.auto_mode THEN E
    ELSE IF ticks_diff(t, E.last_pattern_update) >= IntervalFor(E.pattern_type)
    THEN [PatternShow(E, BranchOf(v, E.pattern_type)) EXCEPT
              !.pattern_index =
                  PatternAdvance(E.pattern_index, BranchOf(v, E.pattern_type)),
              !.last_pattern_update = t]
    ELSE E

\* Whether that call performs a pattern step.
TickSteps(E, t) ==
    /\ E.auto_mode
    /\ ticks_diff(t, E.last_pattern_update) >= IntervalFor(E.pattern_type)

\* The call named name with arguments args turns the controller into E.
Called(name, args, E) ==
    /\ Becomes(E)
    /\ op' = [name |-> name, args |-> args]
    /\ UNCHANGED <<now, pc, bleVars, blinkVars, localVars, variant, last_irq,
                   manual, linked, faulted, waited, elapsed>>

CallSetColor(c) ==
    /\ Called("set_color", <<c>>, set_color(Engine, c))
    /\ striped' = FALSE
    /\ UNCHANGED step_count

CallSetStripColor(strip_index, c) ==
    /\ variant = "multi"
    /\ Called("set_strip_color", <<strip_index, c>>,
              set_strip_color(Engine, strip_index, c))
    /\ striped' = TRUE
    /\ UNCHANGED step_count

CallClearLeds ==
    /\ Called("clear_leds", <<>>, clear_leds(Engine))
    /\ striped' = FALSE
    /\ UNCHANGED step_count

CallStartAutoMode(p) ==
    /\ Called("start_auto_mode", <<p>>, start_auto_mode(Engine, p, now))
    /\ step_count' = 0
    /\ UNCHANGED striped

CallStopAutoMode ==
    /\ Called("stop_auto_mode", <<>>, stop_auto_mode(Engine))
    /\ striped' = FALSE
    /\ UNCHANGED step_count

\* _handle_write with a STOP, CLEAR or MUSIC command; each of them ends in
\* a set_color.
CallCommand(command) ==
    /\ Called("command", <<command>>,
              handle_write(Engine, "control", command, now))
    /\ striped' = FALSE
    /\ UNCHANGED step_count

\* _handle_write with an AUTO command
CallAutoCommand(command) ==
    /\ Called("auto_command", <<command>>,
              handle_write(Engine, "control", command, now))
    /\ step_count' = 0
    /\ UNCHANGED striped

\* update_auto_mode(); op tells whether the call found a step due and the
\* time it found gone since last_pattern_update
CallTick ==
    /\ auto_mode => IndexInRange(Engine, BranchOf(variant, pattern_type))
    /\ Called("update_auto_mode",
              <<TickSteps(Engine, now), ticks_diff(now, last_pattern_update)>>,
              AutoTick(Engine, variant, now))
    /\ step_count' = IF TickSteps(Engine, now) THEN step_count + 1
                     ELSE step_count
    /\ striped' = IF TickSteps(Engine, now)
                     /\ BranchOf(variant, pattern_type) # 0
                  THEN BranchOf(variant, pattern_type) = 4
                  ELSE striped

\* The clock moves on by d.
CallWait(d) ==
    /\ now + d <= MaxClock
    /\ now' = ticks_add(now, d)
    /\ op' = [name |-> "wait", args |-> <<d>>]
    /\ UNCHANGED <<engineVars, pc, bleVars, blinkVars, localVars, variant,
                   last_irq, manual, linked, faulted, step_count, striped,
                   waited, elapsed>>

\* A central connects before the first call.
ConnectFirst ==
    /\ op = NoOp
    /\ connections = {}
    /\ IrqConnect(1)

NextCalls ==
    \/ ConnectFirst
    \/ \E c \in CallColors : CallSetColor(c)
    \/ \E i \in CallStrips, c \in CallColors : CallSetStripColor(i, c)
    \/ CallClearLeds
    \/ \E p \in CallPatterns : CallStartAutoMode(p)
    \/ CallStopAutoMode
    \/ \E command \in CallCommands : CallCommand(command)
    \/ \E command \in CallAutoCommands : CallAutoCommand(command)
    \/ CallTick
    \/ \E d \in ClockSteps : CallWait(d)

SpecCalls == Init /\ [][NextCalls]_vars

----------------------------------------------------------------------------
(* Long runs of a pattern: passes of the main loop, each an                 *)
(* update_auto_mode call and the sleep after it, with a pattern started or  *)
(* stopped between any two passes.                                          *)

\* The clock up to which passes are followed: 100 passes, so that the 96
\* colours of the gradient come round.
MaxRunClock == 50000

\* Clock time from one update_auto_mode call to the next that is looked
\* at: five sleeps of the loop.
RunSleepMs == 500

\* The patterns started during a run.
RunPatterns == {1, 2, 3, 4}

\* One pass: update_auto_mode(), then the clock moves on.
RunPass ==
    /\ now + RunSleepMs <= MaxRunClock
    /\ auto_mode => IndexInRange(Engine, BranchOf(variant, pattern_type))
    /\ Becomes(AutoTick(Engine, variant, now))
    /\ op' = [name |-> "update_auto_mode",
              args |-> <<TickSteps(Engine, now),
                         ticks_diff(now, last_pattern_update)>>]
    /\ now' = ticks_add(now, RunSleepMs)
    /\ step_count' = IF TickSteps(Engine, now) THEN step_count + 1
                     ELSE step_count
    /\ striped' = IF TickSteps(Engine, now)
                     /\ BranchOf(variant, pattern_type) # 0
                  THEN BranchOf(variant, pattern_type) = 4
                  ELSE striped
    /\ UNCHANGED <<pc, bleVars, blinkVars, localVars, variant, last_irq,
                   manual, linked, faulted, waited, elapsed>>

NextRun ==
    \/ \E p \in RunPatterns : CallStartAutoMode(p)
    \/ CallStopAutoMode
    \/ RunPass

SpecRun == Init /\ [][NextRun]_vars

----------------------------------------------------------------------------
(* main.py at the cadence of its loop: every pass is update_waiting_blink,  *)
(* update_auto_mode and the sleep of 100 ms, and every _irq handler runs    *)
(* between two passes.                                                      *)

\* The clock up to which passes are followed, on either side of the half
\* of the clock's period.
MaxIdleClock == 11000

\* A connection during which half the period of the clock goes by.
LongStay == TICKS_PERIOD \div 2

\* Whether the pass that begins now changes the phase of the blink.
IdleToggles == ~BlinkOff /\ BlinkDue(now)

\* One pass of the loop.  waited is the time since start-up, since the
\* flash that began last or since the disconnect that emptied the set,
\* whichever came last, and 0 while a central is connected or a pattern
\* runs.
Pass(limit) ==
    /\ (now % LongStay) + SLEEP_MS <= limit
    /\ auto_mode => IndexInRange(Engine, BranchOf(variant, pattern_type))
    /\ Becomes(AutoTick(IF IdleToggles THEN BlinkShow(Engine) ELSE Engine,
                        variant, now))
    /\ blink_state' = IF IdleToggles THEN ~blink_state ELSE blink_state
    /\ last_blink_time' = IF IdleToggles THEN now ELSE last_blink_time
    /\ now' = ticks_add(now, SLEEP_MS)
    /\ waited' = IF connections # {} \/ auto_mode THEN 0
                 ELSE IF IdleToggles /\ ~blink_state THEN SLEEP_MS
                 ELSE IF last_irq.event = 2 THEN SLEEP_MS
                 ELSE waited + SLEEP_MS
    /\ last_irq' = NoIrq
    /\ manual' = NONE
    /\ UNCHANGED <<pc, bleVars, localVars, variant, callVars, linked,
                   faulted, elapsed>>

IdlePass == Pass(MaxIdleClock)

\* A central stays connected, with no pattern running, while the clock
\* goes through half its period: the passes in between change nothing.
IdleStay ==
    /\ connections # {}
    /\ ~auto_mode
    /\ now' = ticks_add(now, LongStay)
    /\ UNCHANGED <<engineVars, pc, bleVars, blinkVars, localVars, last_irq,
                   manual, linked, faulted, fixedVars>>

\* The BLE host reports a new link under a handle not in use.
IdleConnect(conn_handle) ==
    /\ conn_handle \notin connections
    /\ IrqConnect(conn_handle)

\* The BLE host reports the end of a link it had reported.
IdleDisconnect(conn_handle) ==
    /\ conn_handle \in connections
    /\ IrqDisconnect(conn_handle)

NextIdle ==
    \/ IdlePass
    \/ IdleStay
    \/ \E h \in Handles : IdleConnect(h)
    \/ \E h \in Handles : IdleDisconnect(h)

SpecIdle == InitOf("single") /\ [][NextIdle]_vars

----------------------------------------------------------------------------
(* main.py with every handler and every pass run as a whole, and writes     *)
(* only from a connected central.                                           *)

\* The clock up to which passes are followed: past the first flash.
MaxAtomicClock == 5500

\* The writes a connected central sends: a colour, AUTO:1 and STOP.
AtomicWrites ==
    { <<"color", <<10, 20, 30>>>>,
      <<"control", AUTO_PREFIX \o <<49>>>>,
      <<"control", STOP_TEXT>> }

AtomicPass == Pass(MaxAtomicClock)

AtomicWrite(w) ==
    /\ connections # {}
    /\ IrqWrite(w[1], w[2])

NextAtomic ==
    \/ AtomicPass
    \/ \E h \in Handles : IdleConnect(h)
    \/ \E h \in Handles : IdleDisconnect(h)
    \/ \E w \in AtomicWrites : AtomicWrite(w)

SpecAtomic == InitOf("single") /\ [][NextAtomic]_vars

----------------------------------------------------------------------------
(* BluetoothService.__init__ from the return of gap_advertise on: the       *)
(* handler is registered and the peripheral advertises, but connections,    *)
(* is_connected and the blink fields are assigned only in the statements    *)
(* that follow.  While pc = "constructing" the values the model holds for   *)
(* them stand for attributes that do not exist yet.                         *)

\* The controller is constructed and the start-up test lights are over;
\* the service stands between gap_advertise and its own fields.
InitStart ==
    /\ variant \in Variants
    /\ now = 0
    /\ leds = [s \in 1..Len(StripLens(variant)) |->
                  [i \in 1..StripLens(variant)[s] |-> BLACK]]
    /\ current_color = BLACK
    /\ auto_mode = FALSE
    /\ pattern_type = 1
    /\ pattern_index = 0
    /\ last_pattern_update = ticks_add(now, -StartupMs(variant))
    /\ connections = {}
    /\ is_connected = FALSE
    /\ blink_state = FALSE
    /\ last_blink_time = now
    /\ pc = "constructing"
    /\ current_time = 0
    /\ branch = 0
    /\ last_irq = NoIrq
    /\ manual = NONE
    /\ linked = {}
    /\ faulted = FALSE
    /\ op = NoOp
    /\ step_count = 0
    /\ striped = FALSE
    /\ waited = 0
    /\ elapsed = StartupMs(variant)

\* _IRQ_CENTRAL_CONNECT during construction: self.connections.add raises
\* AttributeError, the first statement of the branch that touches a
\* field; the callback ends there and the central keeps its link.
StartConnect(conn_handle) ==
    /\ pc = "constructing"
    /\ conn_handle \notin linked
    /\ linked' = linked \cup {conn_handle}
    /\ last_irq' = [event |-> 1, advertised |-> FALSE]
    /\ UNCHANGED <<now, engineVars, pc, bleVars, blinkVars, localVars,
                   fixedVars, manual, faulted>>

\* The rest of __init__: connections = set(), is_connected = False,
\* blink_state = False, last_blink_time = time.ticks_ms(); then main()
\* enters its loop.
StartDone ==
    /\ pc = "constructing"
    /\ connections' = {}
    /\ is_connected' = FALSE
    /\ blink_state' = FALSE
    /\ last_blink_time' = now
    /\ pc' = LoopTop(variant)
    /\ last_irq' = NoIrq
    /\ UNCHANGED <<now, engineVars, localVars, fixedVars, manual, linked,
                   faulted>>

NextStart ==
    \/ \E h \in Handles : StartConnect(h)
    \/ StartDone
    \/ pc # "constructing" /\ Next

SpecStart == InitStart /\ [][NextStart]_vars

----------------------------------------------------------------------------
(* update_auto_mode around the wrap of ticks_ms: the clock is taken to just *)
(* before 2^30, a pattern is started, and calls follow on a grid of 100 ms  *)
(* through the wrap.                                                        *)

\* How long before the wrap the clock is taken up, and how long after it
\* the calls are followed.
WrapLeadMs == 1500
MaxWrapClock == 2000

\* The patterns started: one of each interval.
WrapPatterns == {1, 3}

\* The device has run, with no pattern, until shortly before the clock
\* wraps.
WrapUptime ==
    /\ op = NoOp
    /\ now' = ticks_add(now, -WrapLeadMs)
    /\ elapsed' = elapsed + (TICKS_PERIOD - WrapLeadMs)
    /\ op' = [name |-> "uptime", args |-> <<>>]
    /\ UNCHANGED <<engineVars, pc, bleVars, blinkVars, localVars, variant,
                   last_irq, manual, linked, faulted, step_count, striped,
                   waited>>

\* start_auto_mode(p)
WrapStart(p) ==
    /\ Becomes(start_auto_mode(Engine, p, now))
    /\ elapsed' = 0
    /\ step_count' = 0
    /\ op' = [name |-> "start_auto_mode", args |-> <<p>>]
    /\ UNCHANGED <<now, pc, bleVars, blinkVars, localVars, variant, last_irq,
                   manual, linked, faulted, striped, waited>>

\* update_auto_mode()
WrapTick ==
    /\ auto_mode => IndexInRange(Engine, BranchOf(variant, pattern_type))
    /\ Becomes(AutoTick(Engine, variant, now))
    /\ op' = [name |-> "update_auto_mode",
              args |-> <<TickSteps(Engine, now), elapsed>>]
    /\ elapsed' = IF TickSteps(Engine, now) THEN 0 ELSE elapsed
    /\ step_count' = IF TickSteps(Engine, now) THEN step_count + 1
                     ELSE step_count
    /\ UNCHANGED <<now, pc, bleVars, blinkVars, localVars, variant, last_irq,
                   manual, linked, faulted, striped, waited>>

\* time.sleep(0.1)
WrapSleep ==
    /\ ((now + WrapLeadMs) % TICKS_PERIOD) + SLEEP_MS
           <= WrapLeadMs + MaxWrapClock
    /\ now' = ticks_add(now, SLEEP_MS)
    /\ elapsed' = elapsed + SLEEP_MS
    /\ op' = [name |-> "wait", args |-> <<SLEEP_MS>>]
    /\ UNCHANGED <<engineVars, pc, bleVars, blinkVars, localVars, variant,
                   last_irq, manual, linked, faulted, step_count, striped,
                   waited>>

NextWrap ==
    \/ WrapUptime
    \/ \E p \in WrapPatterns : WrapStart(p)
    \/ WrapTick
    \/ WrapSleep

SpecWrap == Init /\ [][NextWrap]_vars

----------------------------------------------------------------------------
(* C1.  Manual colour wins. *)

\* C1: once a colour write of at least 3 bytes [R, G, B, ...] has been
\* handled between two ticks (after AUTO:<n> or after anything else), auto
\* mode is off, current_color is (R, G, B) and every LED of every strip
\* shows (R, G, B), and this stays so through the update_auto_mode ticks
\* that follow, at whatever clock value, until another BLE event or an idle
\* blink.
C1_ManualColourWins ==
    manual # NONE =>
        /\ ~auto_mode
        /\ current_color = manual
        /\ AllLeds(leds, manual)

\* AUTO:3 was written, then (10, 20, 30); since then update_auto_mode has
\* run to its end at a clock at which a step of pattern 3 would be due.
C1_Witness ==
    /\ manual = <<10, 20, 30>>
    /\ pattern_type = 3
    /\ ticks_diff(now, last_pattern_update) >= FAST_INTERVAL_MS
    /\ pc = "sleep"
    /\ last_irq = NoIrq

----------------------------------------------------------------------------
(* C2.  The last disconnect stops auto mode. *)

\* C2: in both builds, a disconnect that takes the last handle out of the
\* set while auto mode runs leaves auto mode off and every LED black; a
\* disconnect that leaves a handle in the set changes neither auto_mode nor
\* the LEDs.
C2_LastDisconnectStopsAuto ==
    [][\A h \in Handles :
          IrqDisconnect(h) =>
              /\ (connections = {h} /\ auto_mode) =>
                     (~auto_mode' /\ AllLeds(leds', BLACK))
              /\ (connections' # {}) =>
                     (auto_mode' = auto_mode /\ leds' = leds)]_vars

----------------------------------------------------------------------------
(* C3.  Malformed writes. *)

\* The text of a command after its prefix.
C3_Argument(command, prefix) ==
    SubSeq(command, Len(prefix) + 1, Len(command))

\* The writes C3 calls malformed: a colour payload under 3 bytes, a control
\* payload that is not UTF-8, AUTO:<x> or MUSIC:<x> whose x is no integer,
\* a control string that is no command.
C3_Malformed(value_handle, value) ==
    \/ value_handle = "color" /\ Len(value) < 3
    \/ /\ value_handle = "control"
       /\ \/ ~Utf8Valid(value)
          \/ LET command == Strip(value)
             IN  IF StartsWith(command, AUTO_PREFIX)
                 THEN ~ParseInt(C3_Argument(command, AUTO_PREFIX)).ok
                 ELSE IF StartsWith(command, MUSIC_PREFIX)
                 THEN ~ParseInt(C3_Argument(command, MUSIC_PREFIX)).ok
                 ELSE command \notin {STOP_TEXT, CLEAR_TEXT}

\* C3: a malformed write leaves auto_mode, pattern_type, pattern_index,
\* last_pattern_update, current_color and every LED as they were.
C3_MalformedWriteChangesNothing ==
    [][\A w \in Writes :
          (IrqWrite(w[1], w[2]) /\ C3_Malformed(w[1], w[2])) =>
              UNCHANGED engineVars]_vars

----------------------------------------------------------------------------
(* C4.  The timing of the idle blink. *)

\* No central, no auto mode: the blink is not guarded off.
C4_Idle == connections = {} /\ ~is_connected /\ ~auto_mode

\* Dark since 0: the blink tick at 4899 changes nothing, the one at 4900
\* lights every LED blue, sets blink_state and stamps 4900.
C4_DarkPhase ==
    /\ (BlinkCheck /\ C4_Idle /\ ~blink_state /\ last_blink_time = 0
           /\ now = 4899) =>
          (pc' = "auto" /\ UNCHANGED <<engineVars, blinkVars>>)
    /\ (BlinkCheck /\ C4_Idle /\ ~blink_state /\ last_blink_time = 0
           /\ now = 4900) =>
          pc' = "blink_set"
    /\ (BlinkToggle /\ ~blink_state /\ current_time = 4900) =>
          (AllLeds(leds', BLUE) /\ blink_state' /\ last_blink_time' = 4900)

\* What a blink tick does once it has found the lit phase over.
C4_Clears ==
    (BlinkToggle /\ blink_state) =>
        (AllLeds(leds', BLACK) /\ ~blink_state'
         /\ last_blink_time' = current_time)

\* C4 as stated: after the ticks at 4899 (nothing) and 4900 (blue, lit),
\* the blink tick at 4999 finds the lit phase over and clears the LEDs.
C4_AsStated ==
    [][/\ C4_DarkPhase
       /\ C4_Clears
       /\ (BlinkCheck /\ C4_Idle /\ blink_state /\ last_blink_time = 4900
              /\ now = 4999) =>
             pc' = "blink_set"]_vars

\* C4, amended: after the ticks at 4899 (nothing) and 4900 (blue, lit), the
\* blink tick at 4999, 99 ms on, changes nothing; the one at 5000, 100 ms
\* on, finds the lit phase over and clears the LEDs.
C4_BlinkTiming ==
    [][/\ C4_DarkPhase
       /\ C4_Clears
       /\ (BlinkCheck /\ C4_Idle /\ blink_state /\ last_blink_time = 4900
              /\ now = 4999) =>
             (pc' = "auto" /\ UNCHANGED <<engineVars, blinkVars>>)
       /\ (BlinkCheck /\ C4_Idle /\ blink_state /\ last_blink_time = 4900
              /\ now = 5000) =>
             pc' = "blink_set"]_vars

\* Blue since 4900; the blink tick at 4999 has run and the LEDs are still
\* blue.
C4_Witness ==
    /\ C4_Idle
    /\ blink_state
    /\ last_blink_time = 4900
    /\ AllLeds(leds, BLUE)
    /\ now = 4999
    /\ pc = "auto"
    /\ last_irq = NoIrq

----------------------------------------------------------------------------
(* C5.  The idle blink is guarded. *)

\* A blink tick that begins while a central is in the set or auto mode runs
\* ends without a phase change: LEDs, current_color, blink_state and
\* last_blink_time are as before.
C5_GuardedTick ==
    (BlinkCheck /\ (connections # {} \/ auto_mode)) =>
        /\ pc' = "auto"
        /\ UNCHANGED <<leds, current_color, blink_state, last_blink_time>>

\* C5 as stated: a blink tick in a guarded state changes nothing, and after
\* a connect that arrives with blink_state = TRUE the set holds exactly the
\* new handle.
C5_AsStated ==
    [][/\ C5_GuardedTick
       /\ \A h \in Handles :
              (IrqConnect(h) /\ blink_state) => connections' = {h}]_vars

\* C5, amended: a blink tick in a guarded state changes nothing, and after
\* a connect that arrives with blink_state = TRUE at an empty set the set
\* holds exactly the new handle and the peripheral counts as connected.
C5_BlinkGuarded ==
    [][/\ C5_GuardedTick
       /\ \A h \in Handles :
              (IrqConnect(h) /\ blink_state /\ connections = {}) =>
                  (connections' = {h} /\ is_connected')]_vars

\* The blue flash was on when handle 1 connected (red since); a blink tick
\* has run 100 ms or more after the flash began and has left it all alone.
C5_Witness ==
    /\ variant = "single"
    /\ blink_state
    /\ connections = {1}
    /\ current_color = RED
    /\ ticks_diff(now, last_blink_time) >= BLINK_ON_MS
    /\ pc = "auto"
    /\ last_irq = NoIrq

----------------------------------------------------------------------------
(* C6.  Mutual exclusion of the loop and the BLE callback. *)

\* C6: no _irq handler runs while a tick is part-way through: when a
\* handler has just returned, the loop stands between two ticks.
C6_MutualExclusion ==
    last_irq.event # 0 => pc \in BoundaryPcs

----------------------------------------------------------------------------
(* C7.  The shutdown signal. *)

\* C7: wherever the shutdown signal reaches main(), the program has cleared
\* the LEDs by the time it is over: every LED is black then.
C7_ShutdownClearsLeds ==
    pc \in EndPcs => AllLeds(leds, BLACK)

----------------------------------------------------------------------------
(* C8.  Faults in the loop. *)

\* The modelled clock has no value left at which a sleep of at least
\* least ms could return.
C8_NoClockLeft(least) == \A t \in TickTimes : ticks_diff(t, now) < least

\* C8: a fault raised in a tick is caught and takes the loop to its 1 s
\* pause; the pause ends at the top of a further iteration, 1000 ms later
\* or more; only the shutdown signal takes main() out of the loop; and a
\* loop that has caught a fault does come to a further iteration, unless
\* the signal arrives or the modelled clock runs out first.
C8_FaultNeverEndsLoop ==
    /\ [][/\ Fault => pc' = "backoff"
          /\ Backoff => (pc' = LoopTop(variant)
                         /\ ticks_diff(now', now) >= BACKOFF_MS)
          /\ (pc \in TryPcs \cup {"backoff"}
                /\ pc' \notin TryPcs \cup {"backoff"}) =>
                KeyboardInterrupt]_vars
    /\ (pc = "backoff") ~>
          (\/ pc = LoopTop(variant)
           \/ pc = "crashed"
           \/ pc = "backoff" /\ C8_NoClockLeft(BACKOFF_MS))

\* A tick has raised, and after the pause update_auto_mode has shown a
\* pattern step.
C8_Witness ==
    /\ faulted
    /\ pc = "auto_index"

----------------------------------------------------------------------------
(* C9.  Advertising after a disconnect. *)

----------------------------------------------------------------------------
(* C10.  The connection set. *)

\* C10: the set holds exactly the handles connected and not disconnected
\* since, and in main.py is_connected holds exactly when the set is not
\* empty.
C10_ConnectedIffNonEmpty ==
    /\ connections = linked
    /\ variant = "single" => (is_connected <=> connections # {})

\* Two centrals connected, one has disconnected: the other is in the set
\* and the peripheral counts as connected.
C10_Witness ==
    /\ variant = "single"
    /\ last_irq.event = 2
    /\ connections = {2}
    /\ is_connected

----------------------------------------------------------------------------
(* C11.  Stopping. *)

\* A call of stop_auto_mode(), the STOP command or the CLEAR command.
C11_Stops ==
    \/ CallStopAutoMode
    \/ CallCommand(STOP_TEXT)
    \/ CallCommand(CLEAR_TEXT)

\* The call made last was one of the three.
C11_Stopped ==
    \/ op.name = "stop_auto_mode"
    \/ op.name = "command" /\ op.args \in {<<STOP_TEXT>>, <<CLEAR_TEXT>>}

\* C11: stop_auto_mode(), STOP and CLEAR each leave auto mode off,
\* current_color black and every LED black, and pattern_type, pattern_index
\* and the connection set as they were; one of them called right after one
\* of them changes nothing any more.
C11_StopIdempotent ==
    [][C11_Stops =>
          /\ ~auto_mode'
          /\ current_color' = BLACK
          /\ AllLeds(leds', BLACK)
          /\ UNCHANGED <<pattern_type, pattern_index, connections>>
          /\ C11_Stopped => UNCHANGED engineVars]_vars

\* With a central connected, pattern 3 has run for two steps and STOP has
\* been called: the pattern's position is kept, the LEDs are dark.
C11_Witness ==
    /\ op = [name |-> "command", args |-> <<STOP_TEXT>>]
    /\ connections = {1}
    /\ pattern_type = 3
    /\ pattern_index = 2
    /\ ~auto_mode
    /\ AllLeds(leds, BLACK)

----------------------------------------------------------------------------
(* C12.  The LEDs show current_color. *)

\* 8-bit triples tried on set_color in every state.
C12_Colors == {0, 128, 255} \X {0, 128, 255} \X {0, 128, 255}

\* C12: from any state, set_color(r, g, b) leaves current_color and every
\* LED of every strip at (r, g, b); and between calls every LED shows
\* current_color, in main.py always (no strip is ever written alone
\* there), in main_multi_gpio.py unless a strip was written alone, by
\* set_strip_color or a step of pattern 4, since the last set_color.
C12_LedsShowCurrentColor ==
    /\ \A c \in C12_Colors :
           /\ set_color(Engine, c).current_color = c
           /\ AllLeds(set_color(Engine, c).leds, c)
    /\ variant = "single" => ~striped
    /\ ~striped => AllLeds(leds, current_color)

\* main_multi_gpio.py: pattern 4 has lit the strips apart, then
\* set_color(10, 20, 30) has made them one colour again.
C12_Witness ==
    /\ variant = "multi"
    /\ op = [name |-> "set_color", args |-> <<(<<10, 20, 30>>)>>]
    /\ pattern_type = 4
    /\ pattern_index > 0
    /\ ~striped
    /\ current_color = <<10, 20, 30>>
    /\ AllLeds(leds, <<10, 20, 30>>)

----------------------------------------------------------------------------
(* C13.  set_strip_color. *)

\* C13: set_strip_color(i, r, g, b) with 0 <= i < number of strips sets
\* every LED of strip i to (r, g, b) and leaves the other strips,
\* current_color, auto_mode, pattern_type and pattern_index as they were;
\* with i below 0 or too large it changes nothing.
C13_StripColorFrame ==
    [][\A i \in CallStrips, c \in CallColors :
          CallSetStripColor(i, c) =>
              IF 0 <= i /\ i < Len(leds)
              THEN /\ \A k \in DOMAIN leds'[i + 1] : leds'[i + 1][k] = c
                   /\ \A s \in DOMAIN leds : s # i + 1 => leds'[s] = leds[s]
                   /\ DOMAIN leds' = DOMAIN leds
                   /\ UNCHANGED <<current_color, auto_mode, pattern_type,
                                  pattern_index, last_pattern_update>>
              ELSE UNCHANGED engineVars]_vars

\* The second strip alone has been set to (10, 20, 30): the first strip is
\* dark and current_color is black still.
C13_Witness ==
    /\ op = [name |-> "set_strip_color", args |-> <<1, <<10, 20, 30>>>>]
    /\ \A k \in DOMAIN leds[2] : leds[2][k] = <<10, 20, 30>>
    /\ \A k \in DOMAIN leds[1] : leds[1][k] = BLACK
    /\ current_color = BLACK

----------------------------------------------------------------------------
(* C14.  start_auto_mode. *)

\* C14: start_auto_mode(p), called directly or by an AUTO command, sets
\* auto_mode, pattern_type = p, pattern_index = 0 and last_pattern_update =
\* the clock, also while a pattern runs, and changes no LED and not
\* current_color; and the first tick after it that changes an LED or
\* current_color comes at a clock at least the pattern's interval after
\* the call.
C14_StartAutoModeFrame ==
    [][/\ \A p \in CallPatterns :
              CallStartAutoMode(p) =>
                  /\ auto_mode'
                  /\ pattern_type' = p
                  /\ pattern_index' = 0
                  /\ last_pattern_update' = now
                  /\ UNCHANGED <<leds, current_color>>
       /\ \A command \in CallAutoCommands :
              CallAutoCommand(command) =>
                  /\ auto_mode'
                  /\ pattern_type' =
                         ParseInt(C3_Argument(command, AUTO_PREFIX)).val
                  /\ pattern_index' = 0
                  /\ last_pattern_update' = now
                  /\ UNCHANGED <<leds, current_color>>
       /\ (CallTick /\ auto_mode /\ step_count = 0
              /\ (leds' # leds \/ current_color' # current_color)) =>
             ticks_diff(now, last_pattern_update)
                 >= IntervalFor(pattern_type)]_vars

\* A pattern has shown red and orange; start_auto_mode(3) has been called
\* then: the pattern is at its first step again and orange still shows.
C14_Witness ==
    /\ op = [name |-> "start_auto_mode", args |-> <<3>>]
    /\ connections = {}
    /\ now > 0
    /\ auto_mode
    /\ pattern_type = 3
    /\ pattern_index = 0
    /\ last_pattern_update = now
    /\ current_color = pattern_colors[2]
    /\ AllLeds(leds, pattern_colors[2])

----------------------------------------------------------------------------
(* C15.  Pattern numbers without a pattern. *)

\* C15: start_auto_mode(p) with p outside 1..4, called directly or by
\* AUTO:<p>, is taken and stored with auto_mode on; every update_auto_mode
\* call made while it is stored, whatever time has passed, is free of an
\* index error and leaves the LEDs, current_color and pattern_index alone.
C15_UnknownPatternIdle ==
    [][/\ \A p \in CallPatterns \ (1..4) :
              CallStartAutoMode(p) => (auto_mode' /\ pattern_type' = p)
       /\ \A command \in CallAutoCommands :
              (CallAutoCommand(command) /\ pattern_type' \notin 1..4) =>
                  auto_mode'
       /\ (auto_mode /\ pattern_type \notin 1..4) =>
              /\ IndexInRange(Engine, BranchOf(variant, pattern_type))
              /\ CallTick => UNCHANGED <<leds, current_color, pattern_index>>
      ]_vars

\* AUTO:-1 is stored, (10, 20, 30) was set afterwards, and an
\* update_auto_mode call at least one interval later has left it showing.
C15_Witness ==
    /\ op.name = "update_auto_mode"
    /\ op.args[1] = TRUE
    /\ auto_mode
    /\ pattern_type = -1
    /\ step_count = 1
    /\ pattern_index = 0
    /\ current_color = <<10, 20, 30>>
    /\ AllLeds(leds, <<10, 20, 30>>)

----------------------------------------------------------------------------
(* C16.  The MUSIC command. *)

\* The MUSIC commands among those called.
C16_MusicCommands ==
    {command \in CallCommands : StartsWith(command, MUSIC_PREFIX)}

\* C16 as stated: MUSIC:<n> leaves auto mode off and keeps the colour: with
\* auto mode off before it, current_color and the LEDs are as before.
C16_AsStated ==
    [][\A command \in C16_MusicCommands :
          CallCommand(command) =>
              /\ ~auto_mode'
              /\ ~auto_mode => UNCHANGED <<current_color, leds>>]_vars

----------------------------------------------------------------------------
(* C17.  A tick that is not due. *)

\* Time since the last stamp is under the running pattern's interval: 500
\* ms for pattern 3, 1000 ms for every other pattern_type.
C17_NotYet ==
    ticks_diff(now, last_pattern_update)
        < (IF pattern_type = 3 THEN 500 ELSE 1000)

\* C17: an update_auto_mode call with auto mode off, or with auto mode on
\* and less than the interval gone since last_pattern_update, leaves the
\* LEDs, current_color, auto_mode, pattern_index, pattern_type and
\* last_pattern_update as they were.
C17_NotDueNoOp ==
    [][(CallTick /\ (~auto_mode \/ C17_NotYet)) =>
          UNCHANGED engineVars]_vars

\* Pattern 1 has made its first step; the call 500 ms later has done
\* nothing.
C17_Witness ==
    /\ op.name = "update_auto_mode"
    /\ op.args[1] = FALSE
    /\ auto_mode
    /\ pattern_type = 1
    /\ pattern_index = 1
    /\ current_color = pattern_colors[1]
    /\ ticks_diff(now, last_pattern_update) = 500

----------------------------------------------------------------------------
(* C18.  A tick that is due. *)

\* auto mode is on and at least the running pattern's interval has gone
\* since last_pattern_update.
C18_Due == auto_mode /\ ~C17_NotYet

\* C18: a due update_auto_mode call makes exactly one step of the running
\* pattern (the index moves by one place, whatever time has gone) and
\* stamps last_pattern_update with the clock of the call; a step is made
\* only when at least the interval has gone since the stamp, and the stamp
\* moves only with a step or a start, so two consecutive steps of a running
\* pattern are at least the interval apart.
C18_OneStepPerCall ==
    [][/\ (CallTick /\ C18_Due) =>
            /\ last_pattern_update' = now
            /\ step_count' = step_count + 1
            /\ UNCHANGED <<auto_mode, pattern_type>>
            /\ pattern_type = 1 =>
                   /\ pattern_index' = (pattern_index + 1) % 7
                   /\ current_color' = pattern_colors[pattern_index + 1]
            /\ pattern_type = 2 => pattern_index' = pattern_index + 1
            /\ pattern_type = 3 =>
                   /\ pattern_index' = (pattern_index + 1) % 96
                   /\ current_color' = gradient_colors[pattern_index + 1]
            /\ (pattern_type = 4 /\ variant = "multi") =>
                   pattern_index' = pattern_index + 1
       /\ step_count' = step_count + 1 =>
            /\ C18_Due
            /\ last_pattern_update' = now'
       /\ last_pattern_update' # last_pattern_update =>
            step_count' \in {0, step_count + 1}]_vars

\* Pattern 1 was started and the first call came 2000 ms later: one step,
\* stamped with the time of the call.
C18_Witness ==
    /\ op.name = "update_auto_mode"
    /\ op.args = <<TRUE, 2000>>
    /\ pattern_type = 1
    /\ step_count = 1
    /\ pattern_index = 1
    /\ current_color = pattern_colors[1]
    /\ last_pattern_update = now

----------------------------------------------------------------------------
(* C19.  Patterns 1 and 3 go round their palettes. *)

\* The last call was an update_auto_mode that made a step.
C19_Stepped == op.name = "update_auto_mode" /\ op.args[1] = TRUE

\* C19: counting the steps k = 0, 1, 2, ... since start_auto_mode, step k
\* of pattern 1 leaves the whole device in basePalette[k mod 7] and step k
\* of pattern 3 in gradient[k mod 96]; and whatever patterns were started
\* and stopped before, pattern_index is below 7 while pattern 1 runs and
\* below 96 while pattern 3 runs, so no step indexes past its palette.
C19_PaletteCycle ==
    /\ (C19_Stepped /\ pattern_type = 1) =>
           /\ current_color = pattern_colors[((step_count - 1) % 7) + 1]
           /\ AllLeds(leds, current_color)
    /\ (C19_Stepped /\ pattern_type = 3) =>
           /\ current_color = gradient_colors[((step_count - 1) % 96) + 1]
           /\ AllLeds(leds, current_color)
    /\ (auto_mode /\ pattern_type = 1) => pattern_index \in 0..6
    /\ (auto_mode /\ pattern_type = 3) => pattern_index \in 0..95

\* Step 96 of pattern 3: the gradient has come round to its first colour.
C19_Witness ==
    /\ C19_Stepped
    /\ auto_mode
    /\ pattern_type = 3
    /\ step_count = 97
    /\ pattern_index = 1
    /\ current_color = gradient_colors[1]
    /\ AllLeds(leds, gradient_colors[1])

----------------------------------------------------------------------------
(* C20.  Pattern 2 blinks through the palette. *)

\* C20: counting the steps k = 0, 1, 2, ... since start_auto_mode(2), step
\* k leaves the whole device in basePalette[(k / 2) mod 7] when k is even
\* and dark when k is odd, and pattern_index is k + 1 after it.
C20_BlinkCycle ==
    (C19_Stepped /\ pattern_type = 2) =>
        /\ pattern_index = step_count
        /\ (step_count - 1) % 2 = 0 =>
               /\ current_color =
                      pattern_colors[(((step_count - 1) \div 2) % 7) + 1]
               /\ AllLeds(leds, current_color)
        /\ (step_count - 1) % 2 = 1 =>
               /\ current_color = BLACK
               /\ AllLeds(leds, BLACK)

\* Step 14 of pattern 2: after red, off, orange, off, ... the palette has
\* come round to red, and pattern_index is 15.
C20_Witness ==
    /\ C19_Stepped
    /\ auto_mode
    /\ pattern_type = 2
    /\ step_count = 15
    /\ pattern_index = 15
    /\ current_color = pattern_colors[1]
    /\ AllLeds(leds, pattern_colors[1])

----------------------------------------------------------------------------
(* C21.  Pattern 4 lights the strips in turn. *)

\* Every LED of strip i (from 0) of ls shows c.
C21_StripShows(ls, i, c) == \A j \in DOMAIN ls[i + 1] : ls[i + 1][j] = c

\* Some LED of strip i (from 0) of ls is lit.
C21_Lit(ls, i) == \E j \in DOMAIN ls[i + 1] : ls[i + 1][j] # BLACK

\* C21: step k of pattern 4, k counted from start_auto_mode(4), leaves
\* strip i in basePalette[(k / 2) mod 7] when k + i is even and dark
\* otherwise, so no two neighbouring strips are lit after it; pattern_index
\* goes from k to k + 1 and current_color stays as it was.
C21_AlternatingStrips ==
    [][(RunPass /\ variant = "multi" /\ auto_mode /\ pattern_type = 4
             /\ ticks_diff(now, last_pattern_update) >= 1000) =>
          /\ pattern_index = step_count
          /\ \A i \in 0..(Len(leds) - 1) :
                C21_StripShows(leds', i,
                    IF (step_count + i) % 2 = 0
                    THEN pattern_colors[((step_count \div 2) % 7) + 1]
                    ELSE BLACK)
          /\ \A i \in 0..(Len(leds) - 2) :
                ~(C21_Lit(leds', i) /\ C21_Lit(leds', i + 1))
          /\ pattern_index' = step_count + 1
          /\ current_color' = current_color]_vars

\* Pattern 1 made two steps and left current_color orange; pattern 4 was
\* started and has made step 15: the first strip is dark, the second red.
C21_Witness ==
    /\ C19_Stepped
    /\ variant = "multi"
    /\ auto_mode
    /\ pattern_type = 4
    /\ step_count = 16
    /\ pattern_index = 16
    /\ current_color = pattern_colors[2]
    /\ C21_StripShows(leds, 0, BLACK)
    /\ C21_StripShows(leds, 1, pattern_colors[1])

----------------------------------------------------------------------------
(* C22.  The idle blink comes back. *)

\* The time gone, at the top of a pass, since start-up, the last flash or
\* the disconnect that emptied the set.
C22_Waited == IF last_irq.event = 2 THEN 0 ELSE waited

\* C22: while no central is connected and no pattern runs, a blue flash
\* begins within 5 s and one loop period (5100 ms) of start-up, of the
\* flash before it, and of the disconnect of the last central, however
\* long the connection lasted.
C22_FlashEveryFiveSeconds ==
    (connections = {} /\ ~auto_mode) => C22_Waited <= 5100

----------------------------------------------------------------------------
(* C23.  The interval across the wrap of the clock. *)

\* C23: with the true time since last_pattern_update below half the
\* clock's period, an update_auto_mode call in auto mode makes a step, and
\* stamps the clock of the call, exactly when that true time is at least
\* the interval (500 ms for pattern 3, 1000 ms otherwise), whether or not
\* the counter has wrapped since the stamp.
C23_WrapSafeInterval ==
    [][(WrapTick /\ auto_mode /\ elapsed < TICKS_PERIOD \div 2) =>
          /\ elapsed = (now - last_pattern_update) % TICKS_PERIOD
          /\ IF elapsed >= (IF pattern_type = 3 THEN 500 ELSE 1000)
             THEN /\ step_count' = step_count + 1
                  /\ last_pattern_update' = now
                  /\ pattern_index' = (pattern_index + 1)
                                         % (IF pattern_type = 3 THEN 96 ELSE 7)
             ELSE UNCHANGED <<engineVars, step_count>>]_vars

\* Pattern 1 was started 500 ms before the wrap; the call 500 ms after it
\* found 1000 ms gone and made the first step.
C23_Witness ==
    /\ op = [name |-> "update_auto_mode", args |-> <<TRUE, 1000>>]
    /\ auto_mode
    /\ pattern_type = 1
    /\ now = 500
    /\ last_pattern_update = 500
    /\ step_count = 1
    /\ pattern_index = 1
    /\ current_color = pattern_colors[1]

----------------------------------------------------------------------------
(* C24.  The rainbow gradient. *)

\* C24: the gradient has 96 entries; entry i is the colour of the integer
\* hue floor(360 * i / 96) at full saturation and value; the hues rise
\* strictly with i and the last is below 360; entry 0 is pure red.  The
\* gradient is assigned once, in __init__, so it is the same in every
\* state, and what a step of pattern 3 shows is one of its entries.
C24_Gradient ==
    /\ Len(gradient_colors) = 96
    /\ \A i \in 0..95 :
          /\ hue_of(i, 96) * 96 <= 360 * i
          /\ 360 * i < (hue_of(i, 96) + 1) * 96
          /\ gradient_colors[i + 1] = hsv_to_rgb(hue_of(i, 96), 100, 100)
    /\ \A i \in 0..94 : hue_of(i, 96) < hue_of(i + 1, 96)
    /\ hue_of(95, 96) < 360
    /\ gradient_colors[1] = <<255, 0, 0>>
    /\ (C19_Stepped /\ pattern_type = 3) =>
          \E i \in 0..95 :
              current_color = hsv_to_rgb(hue_of(i, 96), 100, 100)

\* Pattern 3 has made its second step and shows entry 1, the colour of
\* hue 3.
C24_Witness ==
    /\ C19_Stepped
    /\ auto_mode
    /\ pattern_type = 3
    /\ step_count = 2
    /\ hue_of(1, 96) = 3
    /\ current_color = gradient_colors[2]
    /\ current_color = <<255, 12, 0>>

----------------------------------------------------------------------------
(* C25.  A colour write inside a tick. *)

\* The colours a central writes that no pattern and no command shows.
C25_Colours == { <<10, 20, 30>>, <<255, 255, 255>> }

\* An _irq write handler has just returned with the loop inside
\* update_auto_mode, past the tests of auto_mode and of the interval and
\* before the LED write of the step, and it has left a written colour
\* showing with auto mode off.
C25_WrittenInsideTick ==
    /\ pc = "auto_step"
    /\ last_irq.event = 3
    /\ ~auto_mode
    /\ current_color \in C25_Colours
    /\ AllLeds(leds, current_color)

\* C25: when a colour write is handled while update_auto_mode is part-way
\* through a step, the rest of the step leaves auto mode off and
\* current_color and every LED at the written colour.
C25_ManualSurvivesTick ==
    [][(C25_WrittenInsideTick /\ AutoStep) =>
          /\ ~auto_mode'
          /\ current_color' = current_color
          /\ leds' = leds]_vars

----------------------------------------------------------------------------
(* C26.  Connections at start-up. *)

\* C26: a central whose connect event was delivered once the handler was
\* registered and advertising had begun, be it before __init__ has
\* finished, has its handle in the connection set from the end of
\* construction until its disconnect, and in main.py is_connected is true
\* meanwhile.
C26_NoConnectionLost ==
    pc # "constructing" =>
        /\ linked \subseteq connections
        /\ (variant = "single" /\ linked # {}) => is_connected

----------------------------------------------------------------------------
(* C27.  Nothing is left showing on an unconnected device. *)

\* C27: in main.py, with writes only from a connected central and every
\* handler and pass run as a whole, whenever the connection set is empty
\* auto mode is off and the LEDs are all (0,0,0), or all (0,0,255) with
\* blink_state true.
C27_UnconnectedShowsNothing ==
    (variant = "single" /\ connections = {}) =>
        /\ ~auto_mode
        /\ \/ AllLeds(leds, BLACK)
           \/ AllLeds(leds, BLUE) /\ blink_state

\* AUTO:1 has run for some steps and the last central has disconnected:
\* the pattern is stopped and its colour is gone.
C27_Witness ==
    /\ variant = "single"
    /\ connections = {}
    /\ last_irq.event = 2
    /\ pattern_type = 1
    /\ pattern_index = 2
    /\ ~auto_mode
    /\ AllLeds(leds, BLACK)
    /\ current_color = BLACK

====
